---- MODULE Spec2Model ----
(***************************************************************************)
(* A model of application.py: a Flask service with GET /health,            *)
(* POST /events and GET /data in front of a single MySQL table `events`.   *)
(*                                                                         *)
(* Every request is handled by a worker.  A worker's steps are the places  *)
(* where the handler talks to the database server (connect, one SQL        *)
(* statement, commit, rollback, close); the Python code between two such   *)
(* places is local to the request and belongs to the step before it; so    *)
(* does connection.close(), whose outcome nothing depends on.              *)
(* The database server itself is modelled as MySQL in strict SQL mode:     *)
(* DDL takes effect when it is executed, DML when it is committed, and a   *)
(* connection that is lost rolls its transaction back.                     *)
(***************************************************************************)
EXTENDS Integers, Sequences, FiniteSets, TLC

\* Number of requests the service accepts in one behaviour.
MaxRequests == 2

\* Requests handled at the same time (the WSGI server's workers).
Workers == {"w1", "w2"}

(***************************************************************************)
(* Values: JSON values of a payload and SQL values of a column.  Strings   *)
(* are sequences of one-character strings so that parsing and formatting   *)
(* can be done character by character.                                     *)
(***************************************************************************)
Absent == [k |-> "absent", s |-> <<>>]
Null == [k |-> "null", s |-> <<>>]
Str(chars) == [k |-> "str", s |-> chars]

Digits == <<"0", "1", "2", "3", "4", "5", "6", "7", "8", "9">>

IsDigit(c) == \E i \in 1..10 : Digits[i] = c

DigitVal(c) == (CHOOSE i \in 1..10 : Digits[i] = c) - 1

RECURSIVE NumVal(_)
NumVal(s) ==
    IF s = <<>> THEN 0
    ELSE NumVal(SubSeq(s, 1, Len(s) - 1)) * 10 + DigitVal(s[Len(s)])

RECURSIVE Pow10(_)
Pow10(n) == IF n = 0 THEN 1 ELSE 10 * Pow10(n - 1)

\* n written with `width` decimal digits, zero padded (%Y, %m, %d of strftime).
ZeroPad(n, width) ==
    [i \in 1..width |-> Digits[((n \div Pow10(width - i)) % 10) + 1]]

\* A DATE column value is <<year, month, day>>; NULL is the empty tuple.
NullDate == <<>>

DaysInMonth(m) ==
    IF m \in {4, 6, 9, 11} THEN 30 ELSE IF m = 2 THEN 29 ELSE 31

\* The DATE the server reads from a 'year-month-day' string literal, or
\* NullDate when the literal is no date (error 1292 in strict mode).
ParseDate(s) ==
    LET dash == {i \in 1..Len(s) : s[i] = "-"} IN
    IF Cardinality(dash) # 2 THEN NullDate
    ELSE
        LET i == CHOOSE a \in dash : \A b \in dash : a <= b
            j == CHOOSE a \in dash : \A b \in dash : a >= b
            ys == SubSeq(s, 1, i - 1)
            ms == SubSeq(s, i + 1, j - 1)
            ds == SubSeq(s, j + 1, Len(s))
            AllDigits(p) == Len(p) > 0 /\ \A n \in 1..Len(p) : IsDigit(p[n])
        IN
        IF /\ AllDigits(ys) /\ AllDigits(ms) /\ AllDigits(ds)
           /\ Len(ys) = 4 /\ Len(ms) <= 2 /\ Len(ds) <= 2
           /\ NumVal(ms) \in 1..12
           /\ NumVal(ds) \in 1..DaysInMonth(NumVal(ms))
        THEN <<NumVal(ys), NumVal(ms), NumVal(ds)>>
        ELSE NullDate

\* row[4].strftime("%Y-%m-%d") if row[4] else None
FormatDate(d) ==
    IF d = NullDate THEN Null
    ELSE Str(ZeroPad(d[1], 4) \o <<"-">> \o ZeroPad(d[2], 2) \o <<"-">> \o ZeroPad(d[3], 2))

\* ORDER BY date ASC compares DATE values.
DateLeq(a, b) ==
    \/ a[1] < b[1]
    \/ a[1] = b[1] /\ a[2] < b[2]
    \/ a[1] = b[1] /\ a[2] = b[2] /\ a[3] <= b[3]

(***************************************************************************)
(* Request bodies of POST /events.                                         *)
(***************************************************************************)
Fields == {"title", "description", "image_url", "date", "location"}

Object(title, description, image_url, date, location) ==
    [type |-> "object",
     obj |-> [title |-> title, description |-> description, image_url |-> image_url,
              date |-> date, location |-> location],
     items |-> {}]

NoObject == [f \in Fields |-> Absent]

\* A body that is no JSON text (request.get_json() raises BadRequest).
Malformed == [type |-> "malformed", obj |-> NoObject, items |-> {}]

\* No body and no JSON content type.
NoBody == [type |-> "nobody", obj |-> NoObject, items |-> {}]

\* The JSON text `null`.
JsonNull == [type |-> "null", obj |-> NoObject, items |-> {}]

\* The JSON array ["title", "date"].
JsonArray == [type |-> "array", obj |-> NoObject, items |-> {"title", "date"}]

Title == Str(<<"F", "e", "s", "t">>)
Text == Str(<<"x">>)
December == Str(<<"2", "0", "2", "4", "-", "1", "2", "-", "0", "1">>)
January == Str(<<"2", "0", "2", "4", "-", "1", "-", "5">>)
NotADate == Str(<<"s", "o", "o", "n">>)

Bodies ==
    {Object(Title, Absent, Absent, December, Absent),
     Object(Title, Text, Text, January, Text),
     Object(Null, Absent, Absent, December, Absent),
     Object(Title, Absent, Absent, Null, Absent),
     Object(Title, Absent, Absent, NotADate, Absent),
     Object(Absent, Absent, Absent, December, Absent),
     Object(Title, Text, Absent, Absent, Absent),
     Malformed, NoBody, JsonNull, JsonArray}

\* `field in payload`
Contains(payload, field) ==
    IF payload.type = "object" THEN payload.obj[field] # Absent
    ELSE field \in payload.items

\* `not payload`
Falsy(payload) ==
    \/ payload.type = "null"
    \/ payload.type = "object" /\ \A f \in Fields : payload.obj[f] = Absent
    \/ payload.type = "array" /\ payload.items = {}

RequiredFields == {"title", "date"}

\* payload.get(field)
Get(payload, field) ==
    IF payload.obj[field] = Absent THEN Null ELSE payload.obj[field]

(***************************************************************************)
(* Exceptions and responses.                                               *)
(***************************************************************************)
\* An exception: its class, its message, the names the message lists and, for
\* an exception that wraps another one, the message of that one.
NoExc == [type |-> "none", text |-> "", names |-> <<>>, cause |-> ""]
Exc(type, text) == [type |-> type, text |-> text, names |-> <<>>, cause |-> ""]

NoResp == [status |-> 0, body |-> [none |-> TRUE]]

\* jsonify({"status": "healthy"}), 200
HealthResponse == [status |-> 200, body |-> [status |-> "healthy"]]

BadRequestResponse ==
    [status |-> 400, body |-> [error |-> "Missing required fields: 'title' and 'date'"]]

CreatedResponse == [status |-> 201, body |-> [message |-> "Event created successfully"]]

DataResponse(data) == [status |-> 200, body |-> [data |-> data]]

\* except Exception as e: ... jsonify({"error": ..., "detail": str(e)}), 500
ErrorResponse(kind, e) ==
    [status |-> 500,
     body |-> [error |-> IF kind = "events" THEN "During event creation"
                         ELSE "During data retrieval",
               detail |-> [text |-> e.text, names |-> e.names, cause |-> e.cause]]]

(***************************************************************************)
(* The environment of the process, the database server and the workers.   *)
(***************************************************************************)
VARIABLES
    env,        \* os.environ restricted to the four DB_* names
    dbUp,       \* the database server accepts connections
    catalog,    \* the schema of table `events`
    rows,       \* the committed rows of `events`
    nextId,     \* the table's AUTO_INCREMENT counter
    workers,    \* per worker: the request it handles and where it is
    served,     \* number of requests accepted so far
    acked       \* history: the events whose POST was answered 201

vars == <<env, dbUp, catalog, rows, nextId, workers, served, acked>>

\* required_vars of get_db_connection
RequiredVars == <<"DB_HOST", "DB_USER", "DB_PASSWORD", "DB_NAME">>

\* Mutant: a variable set to the empty string counts as configured.
MissingUnsetOnly(e) ==
    LET Unset(v) == e[v] = "unset" IN SelectSeq(RequiredVars, Unset)

\* missing = [var for var in required_vars if not os.environ.get(var)]
Missing(e) ==
    LET Unset(v) == e[v] # "set" IN SelectSeq(RequiredVars, Unset)

NoTable == [exists |-> FALSE, image_url |-> "none"]

\* Mutant: CREATE TABLE without IF NOT EXISTS.
CreateTable(c) ==
    IF c.exists THEN [error |-> "1050 Table 'events' already exists", catalog |-> c]
    ELSE [error |-> "", catalog |-> [exists |-> TRUE, image_url |-> "TEXT"]]

\* CREATE TABLE IF NOT EXISTS events (... image_url TEXT ...)
CreateTableIfNotExists(c) ==
    IF c.exists THEN [error |-> "", catalog |-> c]
    ELSE [error |-> "", catalog |-> [exists |-> TRUE, image_url |-> "TEXT"]]

\* ALTER TABLE events MODIFY COLUMN image_url TEXT
ModifyImageUrl(c) ==
    IF c.exists THEN [error |-> "", catalog |-> [c EXCEPT !.image_url = "TEXT"]]
    ELSE [error |-> "1146 Table doesn't exist", catalog |-> c]

\* Mutant: the columns are declared without NOT NULL and the date is not checked.
InsertErrorNone(title, date) == ""

\* The column constraints of `events` on the values of an INSERT:
\* title VARCHAR(255) NOT NULL, date DATE NOT NULL.
InsertError(title, date) ==
    IF title = Null \/ date = Null THEN "1048 Column cannot be null"
    ELSE IF ParseDate(date.s) = NullDate THEN "1292 Incorrect date value"
    ELSE ""

\* The row an INSERT of these values adds, with the generated id.
NewRow(id, payload) ==
    [id |-> id,
     title |-> Get(payload, "title"),
     description |-> Get(payload, "description"),
     image_url |-> Get(payload, "image_url"),
     date |-> ParseDate(Get(payload, "date").s),
     location |-> Get(payload, "location")]

\* Mutant: the SELECT has no ORDER BY clause.
Unordered(rs) ==
    {s \in [1..Cardinality(rs) -> rs] :
        \A i, j \in 1..Cardinality(rs) : i # j => s[i] # s[j]}

\* SELECT ... FROM events ORDER BY date ASC: the rows in any order that is
\* ascending in date (rows of equal date come in an order the server picks).
OrderByDateAsc(rs) ==
    {s \in [1..Cardinality(rs) -> rs] :
        /\ \A i, j \in 1..Cardinality(rs) : i # j => s[i] # s[j]
        /\ \A i, j \in 1..Cardinality(rs) : i < j => DateLeq(s[i].date, s[j].date)}

\* The dictionary fetch_data_from_db builds from a row.
MapRow(row) ==
    [id |-> row.id,
     title |-> row.title,
     description |-> row.description,
     image_url |-> row.image_url,
     date |-> FormatDate(row.date),
     location |-> row.location]

MapRows(results) == [i \in 1..Len(results) |-> MapRow(results[i])]

(***************************************************************************)
(* A worker.  conns is the list of the connections the request has        *)
(* opened, the last one being the one in use; each records its state, the  *)
(* statements the code issued on it and its uncommitted rows.              *)
(***************************************************************************)
Idle ==
    [pc |-> "idle", kind |-> "none", payload |-> JsonNull, conns |-> <<>>,
     exc |-> NoExc, resp |-> NoResp, rowId |-> 0, selected |-> {}, seen |-> {}]

NewConn == [state |-> "open", log |-> <<>>, pending |-> {}]

Cur(w) == workers[w].conns[Len(workers[w].conns)]

\* The worker's record with its current connection replaced.
WithCur(w, c) ==
    [workers[w] EXCEPT !.conns = [@ EXCEPT ![Len(@)] = c]]

Issue(c, stmt) == [c EXCEPT !.log = Append(@, stmt)]

\* The statement issued on c cannot reach the server: the connection was
\* lost before, or the server is away now.
Lost(c) == c.state = "broken" \/ ~dbUp

\* What is left of c then: the server rolls its transaction back.
Broken(c) == [c EXCEPT !.state = "broken", !.pending = {}]

\* The service starts against a database without the table, or against one
\* whose table was created by an earlier deployment (image_url VARCHAR(255))
\* and holds an event stored then.
Init ==
    /\ env \in [{RequiredVars[i] : i \in 1..Len(RequiredVars)} -> {"unset", "empty", "set"}]
    /\ dbUp = TRUE
    /\ \/ /\ catalog = NoTable
          /\ rows = {}
          /\ nextId = 1
       \/ /\ catalog = [exists |-> TRUE, image_url |-> "VARCHAR(255)"]
          /\ rows = {NewRow(1, Object(Title, Absent, Absent, December, Absent))}
          /\ nextId = 2
    /\ workers = [w \in Workers |-> Idle]
    /\ served = 0
    /\ acked = {}

Free(w) == workers[w].pc \in {"idle", "done"}

Accept(w, kind, payload) ==
    [Idle EXCEPT !.kind = kind, !.payload = payload,
                 !.seen = IF kind = "data" THEN acked ELSE {}]

\* The handler returns: the response is produced.
Return(rec, resp) == [rec EXCEPT !.pc = "done", !.resp = resp, !.exc = NoExc]

\* Mutant: the health check answers 500 when the database is away.
HealthPingsDb(w) ==
    /\ Free(w)
    /\ served < MaxRequests
    /\ served' = served + 1
    /\ workers' = [workers EXCEPT ![w] =
          Return(Accept(w, "health", JsonNull),
                 IF dbUp THEN HealthResponse
                 ELSE [status |-> 500, body |-> [status |-> "unhealthy"]])]
    /\ UNCHANGED <<env, dbUp, catalog, rows, nextId, acked>>

\* GET /health
Health(w) ==
    /\ Free(w)
    /\ served < MaxRequests
    /\ served' = served + 1
    /\ workers' = [workers EXCEPT ![w] = Return(Accept(w, "health", JsonNull), HealthResponse)]
    /\ UNCHANGED <<env, dbUp, catalog, rows, nextId, acked>>

\* request.get_json(): the parsed payload, or the exception it raises.
\* With no JSON content type it returns None or raises, by the Flask version.
GetJson(body) ==
    IF body.type = "malformed" THEN {[exc |-> Exc("BadRequest", "400 Bad Request"), payload |-> JsonNull]}
    ELSE IF body.type = "nobody"
    THEN {[exc |-> NoExc, payload |-> JsonNull],
          [exc |-> Exc("UnsupportedMediaType", "415 Unsupported Media Type"), payload |-> JsonNull]}
    ELSE {[exc |-> NoExc, payload |-> body]}

\* POST /events up to the call of insert_data_into_db.  Nothing raises
\* NotImplementedError, so the 501 clauses of the handlers are never taken.
CreateEvent(w) ==
    /\ Free(w)
    /\ served < MaxRequests
    /\ served' = served + 1
    /\ \E body \in Bodies : \E got \in GetJson(body) :
          LET rec == Accept(w, "events", body) IN
          workers' = [workers EXCEPT ![w] =
              IF got.exc # NoExc THEN Return(rec, ErrorResponse("events", got.exc))
              ELSE IF Falsy(got.payload) \/ ~ \A f \in RequiredFields : Contains(got.payload, f)
              THEN Return(rec, BadRequestResponse)
              ELSE [rec EXCEPT !.pc = "ensure_connect"]]
    /\ UNCHANGED <<env, dbUp, catalog, rows, nextId, acked>>

\* GET /data up to the call of fetch_data_from_db.
GetData(w) ==
    /\ Free(w)
    /\ served < MaxRequests
    /\ served' = served + 1
    /\ workers' = [workers EXCEPT ![w] = [Accept(w, "data", JsonNull) EXCEPT !.pc = "ensure_connect"]]
    /\ UNCHANGED <<env, dbUp, catalog, rows, nextId, acked>>

\* get_db_connection() called at `pc`; on success the worker goes to `next`.
\* It is called outside any try block of its caller, so what it raises
\* reaches the handler.
Connect(w, pc, next) ==
    /\ workers[w].pc = pc
    /\ LET rec == workers[w]
           missing == Missing(env)
       IN workers' = [workers EXCEPT ![w] =
             IF missing # <<>>
             THEN Return(rec, ErrorResponse(rec.kind,
                     [type |-> "EnvironmentError", text |-> "Missing environment variables: ",
                      names |-> missing, cause |-> ""]))
             ELSE IF ~dbUp
             THEN Return(rec, ErrorResponse(rec.kind,
                     Exc("ConnectionError", "Failed to connect to the database: 2003")))
             ELSE [rec EXCEPT !.pc = next, !.conns = Append(@, NewConn)]]
    /\ UNCHANGED <<env, dbUp, catalog, rows, nextId, served, acked>>

LostConnection == Exc("OperationalError", "2013 Lost connection to MySQL server")

EnsureConnect(w) == Connect(w, "ensure_connect", "ensure_create")

\* A DDL statement of create_db_table at `pc`, `result` being what the server
\* makes of it on the present catalog.  The statement fails when the
\* connection is lost, or with an error of the server (a lock wait timeout,
\* a missing privilege); otherwise it takes effect at once.
Ddl(w, pc, stmt, result, next) ==
    /\ workers[w].pc = pc
    /\ LET c == Issue(Cur(w), stmt) IN
       IF Lost(c)
       THEN /\ workers' = [workers EXCEPT ![w] =
                   [WithCur(w, Broken(c)) EXCEPT !.pc = "ensure_rollback", !.exc = LostConnection]]
            /\ UNCHANGED catalog
       ELSE \/ /\ result.error = ""
               /\ catalog' = result.catalog
               /\ workers' = [workers EXCEPT ![w] = [WithCur(w, c) EXCEPT !.pc = next]]
            \/ /\ result.error # ""
               /\ workers' = [workers EXCEPT ![w] =
                     [WithCur(w, c) EXCEPT !.pc = "ensure_rollback",
                                           !.exc = Exc("OperationalError", result.error)]]
               /\ UNCHANGED catalog
            \/ /\ workers' = [workers EXCEPT ![w] =
                     [WithCur(w, c) EXCEPT !.pc = "ensure_rollback",
                                           !.exc = Exc("OperationalError", "1205 Lock wait timeout exceeded")]]
               /\ UNCHANGED catalog
    /\ UNCHANGED <<env, dbUp, rows, nextId, served, acked>>

EnsureCreate(w) == Ddl(w, "ensure_create", "CREATE", CreateTableIfNotExists(catalog), "ensure_alter")

EnsureAlter(w) == Ddl(w, "ensure_alter", "ALTER", ModifyImageUrl(catalog), "ensure_commit")

\* Mutant: the finally clause is missing.
NotClosed(rec) == rec

\* finally: connection.close()
Closed(rec) ==
    [rec EXCEPT !.conns = [@ EXCEPT ![Len(@)] = [@ EXCEPT !.state = "closed", !.pending = {}]]]

\* The exception in flight reaches the handler's `except Exception`.
Raise(rec) == Return(rec, ErrorResponse(rec.kind, rec.exc))

\* Mutant: create_db_table leaves its connection open after the commit.
EnsureCommitKeepsOpen(w) ==
    /\ workers[w].pc = "ensure_commit"
    /\ LET c == Issue(Cur(w), "COMMIT") IN
       workers' = [workers EXCEPT ![w] =
          IF Lost(c)
          THEN [WithCur(w, Broken(c)) EXCEPT !.pc = "ensure_rollback", !.exc = LostConnection]
          ELSE [WithCur(w, c) EXCEPT !.pc = "op_connect"]]
    /\ UNCHANGED <<env, dbUp, catalog, rows, nextId, served, acked>>

\* connection.commit() of create_db_table, then its finally clause.
EnsureCommit(w) ==
    /\ workers[w].pc = "ensure_commit"
    /\ LET c == Issue(Cur(w), "COMMIT") IN
       workers' = [workers EXCEPT ![w] =
          IF Lost(c)
          THEN [WithCur(w, Broken(c)) EXCEPT !.pc = "ensure_rollback", !.exc = LostConnection]
          ELSE Closed([WithCur(w, c) EXCEPT !.pc = "op_connect"])]
    /\ UNCHANGED <<env, dbUp, catalog, rows, nextId, served, acked>>

\* except Exception as e: connection.rollback(); raise RuntimeError(...)
\* and the finally clause.  A rollback on a lost connection raises instead.
EnsureRollback(w) ==
    /\ workers[w].pc = "ensure_rollback"
    /\ LET c == Issue(Cur(w), "ROLLBACK") IN
       workers' = [workers EXCEPT ![w] =
          IF Lost(c)
          THEN Raise(Closed([WithCur(w, Broken(c)) EXCEPT !.exc = Exc("InterfaceError", "(0, '')")]))
          ELSE Raise(Closed([WithCur(w, [c EXCEPT !.pending = {}]) EXCEPT
                   !.exc = [type |-> "RuntimeError", text |-> "Table creation failed: ",
                            names |-> <<>>, cause |-> @.text]]))]
    /\ UNCHANGED <<env, dbUp, catalog, rows, nextId, served, acked>>

OpConnect(w) == Connect(w, "op_connect", "op_exec")

\* cursor.execute(insert_sql, (payload.get("title"), ...))
Insert(w) ==
    /\ workers[w].pc = "op_exec"
    /\ workers[w].kind = "events"
    /\ LET rec == workers[w]
           p == rec.payload
       IN
       IF p.type # "object"
       THEN \* payload.get raises before anything is sent
            /\ workers' = [workers EXCEPT ![w] =
                  [rec EXCEPT !.pc = "op_rollback",
                              !.exc = Exc("AttributeError", "object has no attribute 'get'")]]
            /\ UNCHANGED nextId
       ELSE LET c == Issue(Cur(w), "INSERT")
                err == InsertError(Get(p, "title"), Get(p, "date"))
            IN
            IF Lost(c)
            THEN /\ workers' = [workers EXCEPT ![w] =
                       [WithCur(w, Broken(c)) EXCEPT !.pc = "op_rollback", !.exc = LostConnection]]
                 /\ UNCHANGED nextId
            ELSE IF err # ""
            THEN /\ workers' = [workers EXCEPT ![w] =
                       [WithCur(w, c) EXCEPT !.pc = "op_rollback",
                                             !.exc = Exc("OperationalError", err)]]
                 /\ UNCHANGED nextId
            ELSE /\ workers' = [workers EXCEPT ![w] =
                       [WithCur(w, [c EXCEPT !.pending = {NewRow(nextId, p)}]) EXCEPT
                            !.pc = "op_commit", !.rowId = nextId]]
                 /\ nextId' = nextId + 1
    /\ UNCHANGED <<env, dbUp, catalog, rows, served, acked>>

\* Mutant: insert_data_into_db never commits (pymysql does not autocommit).
InsertWithoutCommit(w) ==
    /\ workers[w].pc = "op_commit"
    /\ workers' = [workers EXCEPT ![w] = Return(Closed(workers[w]), CreatedResponse)]
    /\ acked' = acked \cup {[id |-> workers[w].rowId, payload |-> workers[w].payload]}
    /\ UNCHANGED <<env, dbUp, catalog, rows, nextId, served>>

\* connection.commit() of insert_data_into_db, its finally clause and the
\* handler's return.
InsertCommit(w) ==
    /\ workers[w].pc = "op_commit"
    /\ LET c == Issue(Cur(w), "COMMIT") IN
       IF Lost(c)
       THEN /\ workers' = [workers EXCEPT ![w] =
                  [WithCur(w, Broken(c)) EXCEPT !.pc = "op_rollback", !.exc = LostConnection]]
            /\ UNCHANGED <<rows, acked>>
       ELSE /\ rows' = rows \cup c.pending
            /\ workers' = [workers EXCEPT ![w] =
                  Return(Closed(WithCur(w, [c EXCEPT !.pending = {}])), CreatedResponse)]
            /\ acked' = acked \cup {[id |-> workers[w].rowId, payload |-> workers[w].payload]}
    /\ UNCHANGED <<env, dbUp, catalog, nextId, served>>

\* Mutant: the except clause rolls back but does not re-raise.
InsertRollbackSwallows(w) ==
    /\ workers[w].pc = "op_rollback"
    /\ LET c == Issue(Cur(w), "ROLLBACK") IN
       workers' = [workers EXCEPT ![w] =
          IF Lost(c)
          THEN Raise(Closed([WithCur(w, Broken(c)) EXCEPT !.exc = Exc("InterfaceError", "(0, '')")]))
          ELSE Return(Closed(WithCur(w, [c EXCEPT !.pending = {}])), CreatedResponse)]
    /\ UNCHANGED <<env, dbUp, catalog, rows, nextId, served, acked>>

\* except Exception: connection.rollback(); raise, and the finally clause.
InsertRollback(w) ==
    /\ workers[w].pc = "op_rollback"
    /\ LET c == Issue(Cur(w), "ROLLBACK") IN
       workers' = [workers EXCEPT ![w] =
          IF Lost(c)
          THEN Raise(Closed([WithCur(w, Broken(c)) EXCEPT !.exc = Exc("InterfaceError", "(0, '')")]))
          ELSE Raise(Closed(WithCur(w, [c EXCEPT !.pending = {}])))]
    /\ UNCHANGED <<env, dbUp, catalog, rows, nextId, served, acked>>

\* cursor.execute(select_sql); cursor.fetchall(); the loop over the rows; the
\* finally clause and the handler's return.  fetch_data_from_db has no except
\* clause: a failure goes to finally and on to the handler.
Select(w) ==
    /\ workers[w].pc = "op_exec"
    /\ workers[w].kind = "data"
    /\ LET c == Issue(Cur(w), "SELECT") IN
       IF Lost(c)
       THEN workers' = [workers EXCEPT ![w] =
               Raise(Closed([WithCur(w, Broken(c)) EXCEPT !.exc = LostConnection]))]
       ELSE \E results \in OrderByDateAsc(rows) :
               workers' = [workers EXCEPT ![w] =
                  Return(Closed([WithCur(w, c) EXCEPT !.selected = rows]),
                         DataResponse(MapRows(results)))]
    /\ UNCHANGED <<env, dbUp, catalog, rows, nextId, served, acked>>

\* The database server goes away, or the network to it does.  A connection
\* notices with the next statement issued on it.
DbDown ==
    /\ dbUp
    /\ dbUp' = FALSE
    /\ UNCHANGED <<env, catalog, rows, nextId, workers, served, acked>>

\* The database server comes back.
DbRestore ==
    /\ ~dbUp
    /\ dbUp' = TRUE
    /\ UNCHANGED <<env, catalog, rows, nextId, workers, served, acked>>

Next ==
    \/ \E w \in Workers : Health(w)
    \/ \E w \in Workers : CreateEvent(w)
    \/ \E w \in Workers : GetData(w)
    \/ \E w \in Workers : EnsureConnect(w)
    \/ \E w \in Workers : EnsureCreate(w)
    \/ \E w \in Workers : EnsureAlter(w)
    \/ \E w \in Workers : EnsureCommit(w)
    \/ \E w \in Workers : EnsureRollback(w)
    \/ \E w \in Workers : OpConnect(w)
    \/ \E w \in Workers : Insert(w)
    \/ \E w \in Workers : InsertCommit(w)
    \/ \E w \in Workers : InsertRollback(w)
    \/ \E w \in Workers : Select(w)
    \/ DbDown
    \/ DbRestore

Spec == Init /\ [][Next]_vars

(***************************************************************************)
(* Vocabulary of the properties.                                           *)
(***************************************************************************)
Done(w) == workers[w].pc = "done"

Status(w) == workers[w].resp.status

Body(w) == workers[w].resp.body

InFlight(w) == workers[w].pc \notin {"idle", "done"}

\* The response is a server error with an `error` and a `detail` key.
IsServerError(w) == Status(w) = 500 /\ DOMAIN Body(w) = {"error", "detail"}

\* The detail reports missing configuration.
ConfigError(w) == IsServerError(w) /\ Body(w).detail.names # <<>>

\* The messages of a database that cannot be reached or does not answer.
FaultTexts ==
    {"Failed to connect to the database: 2003", "2013 Lost connection to MySQL server",
     "(0, '')", "1205 Lock wait timeout exceeded"}

\* The detail reports a failure of the database or of the connection to it.
DatabaseFault(w) ==
    /\ IsServerError(w)
    /\ \/ Body(w).detail.text \in FaultTexts
       \/ Body(w).detail.cause \in FaultTexts

\* A string of the form YYYY-MM-DD.
IsCanonical(s) ==
    /\ Len(s) = 10
    /\ \A i \in 1..10 : IF i \in {5, 8} THEN s[i] = "-" ELSE IsDigit(s[i])

\* A JSON object whose title is a string and whose date is a string the
\* DATE column accepts.
ValidPayload(p) ==
    /\ p.type = "object"
    /\ p.obj["title"].k = "str"
    /\ p.obj["date"].k = "str"
    /\ ParseDate(p.obj["date"].s) # NullDate

\* The payload has no title or no date, or there is no payload at all.
MissingRequired(p) ==
    \/ p.type \in {"malformed", "nobody", "null"}
    \/ p.type = "object" /\ (p.obj["title"] = Absent \/ p.obj["date"] = Absent)

OrNull(v) == IF v = Absent THEN Null ELSE v

\* The entry of GET /data for the event a POST of payload p created with id.
EventOf(id, p) ==
    [id |-> id,
     title |-> p.obj["title"],
     description |-> OrNull(p.obj["description"]),
     image_url |-> OrNull(p.obj["image_url"]),
     date |-> IF IsCanonical(p.obj["date"].s) THEN p.obj["date"]
              ELSE FormatDate(ParseDate(p.obj["date"].s)),
     location |-> OrNull(p.obj["location"])]

CharCode(c) == IF c = "-" THEN 45 ELSE 48 + DigitVal(c)

\* a <= b in the order of strings.
RECURSIVE StrLeq(_, _)
StrLeq(a, b) ==
    IF a = <<>> THEN TRUE
    ELSE IF b = <<>> THEN FALSE
    ELSE IF CharCode(Head(a)) # CharCode(Head(b)) THEN CharCode(Head(a)) < CharCode(Head(b))
    ELSE StrLeq(Tail(a), Tail(b))

EnsureLog == <<"CREATE", "ALTER", "COMMIT">>

\* Some worker's record changes in this step and it then handles a request of `kind`.
StepOf(kind) ==
    \E w \in Workers : workers'[w] # workers[w] /\ workers'[w].kind = kind

C2_MissingFieldsRejected ==
    \A w \in Workers :
        Done(w) /\ workers[w].kind = "events" /\ MissingRequired(workers[w].payload)
        => /\ Status(w) = 400
           /\ workers[w].conns = <<>>
           /\ workers[w].rowId = 0

(***************************************************************************)
(* C3: the data list of every 200 answer of GET /data is in ascending      *)
(* order of its date strings, and its entries are exactly the rows that    *)
(* were stored when the SELECT ran, one entry per row.                     *)
(***************************************************************************)
C3_OrderedByDate ==
    \A w \in Workers :
        Done(w) /\ workers[w].kind = "data" /\ Status(w) = 200
        => LET data == Body(w).data
               stored == workers[w].selected
           IN
           /\ \A i \in 1..(Len(data) - 1) : StrLeq(data[i].date.s, data[i + 1].date.s)
           /\ Len(data) = Cardinality(stored)
           /\ \A r \in stored :
                 \E i \in 1..Len(data) :
                    /\ data[i].id = r.id
                    /\ data[i].title = r.title
                    /\ data[i].description = r.description
                    /\ data[i].image_url = r.image_url
                    /\ data[i].location = r.location
                    /\ data[i].date.k = "str"
                    /\ IsCanonical(data[i].date.s)
                    /\ ParseDate(data[i].date.s) = r.date

\* A 200 answer that lists the event inserted second before the one inserted first.
C3_Witness ==
    \E w \in Workers :
        /\ Done(w) /\ workers[w].kind = "data" /\ Status(w) = 200
        /\ Len(Body(w).data) = 2
        /\ Body(w).data[1].id > Body(w).data[2].id
        /\ Body(w).data[1].date # Body(w).data[2].date

(***************************************************************************)
(* C4: GET /health is answered 200 {"status": "healthy"} in every state,   *)
(* whatever the database, the configuration, the table and the other       *)
(* worker are doing; it opens no connection and the step that answers it   *)
(* changes nothing that is stored.                                         *)
(***************************************************************************)
C4_HealthAlwaysHealthy ==
    /\ [](\A w \in Workers :
            workers[w].kind = "health"
            => /\ Done(w)
               /\ workers[w].resp = [status |-> 200, body |-> [status |-> "healthy"]]
               /\ workers[w].conns = <<>>)
    /\ [][StepOf("health") => UNCHANGED <<catalog, rows, nextId, dbUp, env>>]_vars

\* Healthy while the database is away, the configuration is incomplete, the
\* table does not exist and the other worker is in the middle of a request.
C4_Witness ==
    \E w, v \in Workers :
        /\ workers[w].kind = "health" /\ Status(w) = 200
        /\ ~dbUp /\ ~catalog.exists
        /\ \E x \in DOMAIN env : env[x] # "set"
        /\ InFlight(v)

(***************************************************************************)
(* C5: when the INSERT of a POST /events fails, the code rolls back, the   *)
(* answer is 500 with an error and a detail key, nothing of the request    *)
(* is stored or left pending, and the connection is closed; neither the    *)
(* failing step nor the rollback changes the stored rows.  A 201 is given  *)
(* only for a row that is committed with the values of the payload.        *)
(***************************************************************************)
C5_InsertFailureRollsBack ==
    /\ [](\A w \in Workers :
            Done(w) /\ workers[w].kind = "events"
            => /\ ( /\ Len(workers[w].conns) = 2
                    /\ Len(workers[w].conns[2].log) >= 1
                    /\ workers[w].conns[2].log[1] = "INSERT"
                    /\ Len(workers[w].conns[2].log) >= 2 => workers[w].conns[2].log[2] # "COMMIT" )
                  => /\ IsServerError(w)
                     /\ Body(w).error = "During event creation"
                     /\ workers[w].conns[2].log = <<"INSERT", "ROLLBACK">>
                     /\ workers[w].conns[2].pending = {}
                     /\ workers[w].conns[2].state = "closed"
                     /\ workers[w].rowId = 0
               /\ Status(w) = 201
                  => /\ workers[w].rowId > 0
                     /\ \E r \in rows :
                           /\ r.id = workers[w].rowId
                           /\ MapRow(r) = EventOf(r.id, workers[w].payload))
    /\ [][(\E w \in Workers :
              /\ workers'[w] # workers[w]
              /\ workers[w].pc = "op_rollback" \/ workers'[w].pc = "op_rollback")
          => rows' = rows]_vars

\* A POST whose INSERT violated the NOT NULL constraint of title.
C5_Witness ==
    \E w \in Workers :
        /\ Done(w) /\ workers[w].kind = "events"
        /\ Len(workers[w].conns) = 2
        /\ workers[w].conns[2].log = <<"INSERT", "ROLLBACK">>
        /\ Body(w).detail.text = "1048 Column cannot be null"

(***************************************************************************)
(* C6: while one of DB_HOST, DB_USER, DB_PASSWORD, DB_NAME is unset or     *)
(* empty, no connection is ever attempted, every GET /data and every       *)
(* POST /events that passed validation is answered 500 with a detail that  *)
(* lists exactly the missing names in the order of required_vars, and      *)
(* nothing that is stored changes.                                         *)
(***************************************************************************)
C6_MissingConfigurationRefused ==
    /\ []((\E x \in DOMAIN env : env[x] \in {"unset", "empty"})
          => \A w \in Workers :
                /\ workers[w].conns = <<>>
                /\ Done(w) /\ ( \/ workers[w].kind = "data"
                                \/ workers[w].kind = "events" /\ ~MissingRequired(workers[w].payload) )
                   => /\ IsServerError(w)
                      /\ LET names == Body(w).detail.names IN
                         /\ \A x \in DOMAIN env :
                               (\E i \in 1..Len(names) : names[i] = x) <=> env[x] \in {"unset", "empty"}
                         /\ \A i, j \in 1..Len(names) :
                               i < j => \E a, b \in 1..Len(RequiredVars) :
                                           a < b /\ RequiredVars[a] = names[i] /\ RequiredVars[b] = names[j])
    /\ [][(\E x \in DOMAIN env : env[x] \in {"unset", "empty"})
          => UNCHANGED <<catalog, rows, nextId>>]_vars

\* DB_PASSWORD is empty and DB_NAME unset; the one worker that has handled
\* both requests has answered the second with the configuration error.
C6_Witness ==
    \E w, v \in Workers :
        /\ env["DB_PASSWORD"] = "empty" /\ env["DB_NAME"] = "unset"
        /\ env["DB_HOST"] = "set" /\ env["DB_USER"] = "set"
        /\ served = 2 /\ workers[v].pc = "idle"
        /\ Done(w) /\ workers[w].kind = "events" /\ ConfigError(w)
        /\ Body(w).detail.names = <<"DB_PASSWORD", "DB_NAME">>

(***************************************************************************)
(* C7: every stored row has an id, a title and a date, no two rows share   *)
(* an id, no step removes or alters a stored row, only a step of           *)
(* POST /events adds one, and no step of GET /data or GET /health changes  *)
(* the rows.                                                               *)
(***************************************************************************)
C7_RowsOnlyAdded ==
    /\ [](\A r \in rows :
            /\ r.id \in 1..(nextId - 1)
            /\ r.title.k = "str"
            /\ r.date # NullDate
            /\ \A q \in rows : q.id = r.id => q = r)
    /\ [][/\ rows \subseteq rows'
          /\ rows' # rows => StepOf("events")
          /\ (StepOf("data") \/ StepOf("health")) => rows' = rows]_vars

\* Two rows are stored while a GET /data is in flight.
C7_Witness ==
    /\ Cardinality(rows) = 2
    /\ \E w \in Workers : workers[w].kind = "data" /\ InFlight(w)

C9_ExactlyOneConnection ==
    \A w \in Workers :
        Done(w) /\ Status(w) \in {200, 201} /\ workers[w].kind \in {"events", "data"}
        => Len(workers[w].conns) = 1

(***************************************************************************)
(* C9 as amended: a request opens at most two connections, one after the   *)
(* other and never two at a time: the first for the schema statements,     *)
(* closed before the second is opened for the INSERT or SELECT.  A request *)
(* that succeeds has opened exactly these two, and a request starts with   *)
(* no connection.                                                          *)
(***************************************************************************)
C9_OneConnectionPerOperation ==
    \A w \in Workers :
        LET conns == workers[w].conns IN
        /\ Len(conns) <= 2
        /\ Cardinality({i \in 1..Len(conns) : conns[i].state # "closed"}) <= 1
        /\ workers[w].pc = "ensure_connect" => conns = <<>>
        /\ Len(conns) >= 1
           => \A i \in 1..Len(conns[1].log) : conns[1].log[i] \in {"CREATE", "ALTER", "COMMIT", "ROLLBACK"}
        /\ Len(conns) = 2
           => /\ conns[1].log = EnsureLog
              /\ \A i \in 1..Len(conns[2].log) : conns[2].log[i] \in {"INSERT", "SELECT", "COMMIT", "ROLLBACK"}
        /\ Done(w) /\ Status(w) = 201
           => Len(conns) = 2 /\ conns[2].log = <<"INSERT", "COMMIT">>
        /\ Done(w) /\ Status(w) = 200 /\ workers[w].kind = "data"
           => Len(conns) = 2 /\ conns[2].log = <<"SELECT">>

\* A POST answered 201 and a GET answered 200, each over two connections.
C9_Witness ==
    \E w, v \in Workers :
        /\ Done(w) /\ Status(w) = 201 /\ Len(workers[w].conns) = 2
        /\ Done(v) /\ Status(v) = 200 /\ workers[v].kind = "data" /\ Len(workers[v].conns) = 2

(***************************************************************************)
(* C10: the schema statements have run and committed on the request's      *)
(* first connection before its INSERT or SELECT is issued, and the table   *)
(* then exists with image_url TEXT; if they fail, no second connection is  *)
(* opened and the answer is 500, and they never fail because the table     *)
(* exists already.  Schema-ensure is idempotent: on a table it has set up, *)
(* its statements give no error and change neither the table definition    *)
(* nor, in any state, the rows.                                            *)
(***************************************************************************)
C10_SchemaEnsureIdempotent ==
    /\ [](\A w \in Workers :
            LET conns == workers[w].conns IN
            /\ (workers[w].pc \in {"op_connect", "op_exec", "op_commit", "op_rollback"} \/ Len(conns) = 2)
               => /\ conns[1].log = EnsureLog
                  /\ catalog = [exists |-> TRUE, image_url |-> "TEXT"]
            /\ Done(w) /\ Len(conns) >= 1 /\ conns[1].log # EnsureLog
               => /\ Len(conns) = 1
                  /\ DatabaseFault(w))
    /\ [](catalog = [exists |-> TRUE, image_url |-> "TEXT"]
          => /\ CreateTableIfNotExists(catalog) = [error |-> "", catalog |-> catalog]
             /\ ModifyImageUrl(catalog) = [error |-> "", catalog |-> catalog])
    /\ [][/\ catalog = [exists |-> TRUE, image_url |-> "TEXT"] => catalog' = catalog
          /\ (\E w \in Workers : workers'[w] # workers[w]
                                 /\ workers[w].pc \in {"ensure_create", "ensure_alter", "ensure_commit"})
             => rows' = rows]_vars

\* Both workers have run the schema statements to the end, the second one on
\* the table the first one had set up, next to a row stored before.
C10_Witness ==
    /\ rows # {}
    /\ \A w \in Workers :
          /\ Len(workers[w].conns) >= 1
          /\ workers[w].conns[1].log = EnsureLog
          /\ workers[w].conns[1].state = "closed"

====
